---- MODULE Spec2Model ----
(***************************************************************************)
(* The pooled and the unpooled radon notebooks as state machines.          *)
(*                                                                         *)
(* A notebook run executes the code cells top to bottom in one kernel.     *)
(* The state is the kernel's namespace (the Python names the cells bind),  *)
(* the data module clean_data, the calls made to the inference engine,     *)
(* the figure the plotting cell draws and the position of the run.         *)
(* The inference engine (pystan.stan) is external: a call to it is in      *)
(* flight until the engine returns a fit object or raises.                 *)
(*                                                                         *)
(* Real numbers are exact rationals [num, den] with den > 0.               *)
(***************************************************************************)
EXTENDS Integers, Sequences, FiniteSets, TLC

VARIABLES
    nb,                 \* the notebook that is run: "pooled" or "unpooled"
    pc,                 \* the cell the run executes next, or where it ended
    clean_data,         \* the data module: the arrays it supplies
    defined,            \* the Python names bound in the kernel
    text,               \* the model-specification fragments, by name
    data_dict,          \* pooled_data_dict / unpooled_data_dict
    calls,              \* the calls made to pystan.stan, in order
    raised,             \* the exception that ended the run, if any
    fit,                \* pooled_fit / unpooled_fit
    pooled_sample,      \* pooled_fit.extract(permuted=True)
    b0, m0,             \* the pooled summaries
    unpooled_estimates, \* pd.Series of the column means of a
    unpooled_se,        \* pd.Series of the column standard deviations of a
    order,              \* the index of the sorted estimates
    xvals,              \* the abscissae of the fitted line
    figure,             \* what the plotting calls have drawn, in order
    history             \* the steps of the run that have completed, in order

vars == <<nb, pc, clean_data, defined, text, data_dict, calls, raised, fit,
          pooled_sample, b0, m0, unpooled_estimates, unpooled_se, order,
          xvals, figure, history>>

(***************************************************************************)
(* Bounds of the model.                                                    *)
(***************************************************************************)
MaxRows == 2        \* rows of the observation table
MaxRuns == 2        \* times the summarise cell is run on one sample
MaxSeed == 1        \* the engine's draws are one of the families 0..MaxSeed
NumDraws == 2       \* draws the engine keeps per parameter

(***************************************************************************)
(* Program constants.                                                      *)
(***************************************************************************)
NumCounties == 85   \* upper=85 in the data block, vector[85] a
Iter == 1000        \* iter=1000
Chains == 2         \* chains=2
LinspaceNum == 50   \* np.linspace(-0.1, 1.2): numpy's default num

(***************************************************************************)
(* Exact rationals.                                                        *)
(***************************************************************************)
Rat(n, d) == [num |-> n, den |-> d]
RatAdd(p, q) == Rat(p.num * q.den + q.num * p.den, p.den * q.den)
RatSub(p, q) == Rat(p.num * q.den - q.num * p.den, p.den * q.den)
RatMul(p, q) == Rat(p.num * q.num, p.den * q.den)
RatLeq(p, q) == p.num * q.den <= q.num * p.den
RatLt(p, q) == p.num * q.den < q.num * p.den
RatEq(p, q) == p.num * q.den = q.num * p.den

(***************************************************************************)
(* Sequences.                                                              *)
(***************************************************************************)
RECURSIVE SumSeq(_)
SumSeq(s) == IF s = <<>> THEN 0 ELSE s[1] + SumSeq(Tail(s))

RECURSIVE FlattenRange(_, _, _)
FlattenRange(ss, lo, hi) ==
    IF lo > hi THEN <<>>
    ELSE IF lo = hi THEN ss[lo]
    ELSE FlattenRange(ss, lo, (lo + hi) \div 2) \o FlattenRange(ss, (lo + hi) \div 2 + 1, hi)

\* The concatenation of a sequence of sequences.
Flatten(ss) == FlattenRange(ss, 1, Len(ss))

RECURSIVE SeqsUpTo(_, _)
SeqsUpTo(S, n) ==
    IF n = 0 THEN {<<>>}
    ELSE LET shorter == SeqsUpTo(S, n - 1)
         IN  shorter \cup {Append(s, e) : s \in {t \in shorter : Len(t) = n - 1}, e \in S}

Column(matrix, j) == [d \in 1..Len(matrix) |-> matrix[d][j]]

(***************************************************************************)
(* The data module clean_data.  It supplies the columns of one observation *)
(* table, one row per measurement: the log-transformed response, the floor *)
(* indicator and the 0-based county code, which indexes the enumeration of *)
(* county names mn_counties; srrs_mn is the table itself, with the raw     *)
(* activity beside them.                                                   *)
(***************************************************************************)
LogRadonValues == {Rat(-23, 10), Rat(8, 10)}
FloorValues == {0, 1}
CountyCodes == {0, NumCounties - 1}
ActivityValues == {Rat(22, 10)}

Rows ==
    [log_radon : LogRadonValues, floor : FloorValues,
     county_code : CountyCodes, activity : ActivityValues]

Tables == SeqsUpTo(Rows, MaxRows)

mn_counties == [j \in 1..NumCounties |-> <<"county", j>>]

CleanData(table) ==
    [log_radon     |-> [i \in 1..Len(table) |-> table[i].log_radon],
     floor_measure |-> [i \in 1..Len(table) |-> table[i].floor],
     county        |-> [i \in 1..Len(table) |-> table[i].county_code],
     mn_counties   |-> mn_counties,
     srrs_mn       |-> [floor    |-> [i \in 1..Len(table) |-> table[i].floor],
                        activity |-> [i \in 1..Len(table) |-> table[i].activity]]]

(***************************************************************************)
(* The model-specification fragments.  A fragment is a piece of Stan text; *)
(* it is held as the sequence of the blocks it spells, each block with its *)
(* statements in order, so that the + of two fragments is the \o of their  *)
(* block sequences.  A declaration keeps its type, its bounds (<<>> when   *)
(* it has none), its name and its dimensions.                              *)
(***************************************************************************)
Decl(type, lower, upper, name, dims) ==
    [type |-> type, lower |-> lower, upper |-> upper, name |-> name, dims |-> dims]

Stmt(line) == [stmt |-> line]

\* A dimension is a name of the data block or a literal.
Sym(name) == [sym |-> name]
Lit(k) == [lit |-> k]

pooled_data ==
    << [block |-> "data",
        body  |-> << Decl("int", <<0>>, <<>>, "N", <<>>),
                     Decl("vector", <<>>, <<>>, "x", <<Sym("N")>>),
                     Decl("vector", <<>>, <<>>, "y", <<Sym("N")>>) >>] >>

pooled_parameters ==
    << [block |-> "parameters",
        body  |-> << Decl("vector", <<>>, <<>>, "beta", <<Lit(2)>>),
                     Decl("real", <<0>>, <<>>, "sigma", <<>>) >>] >>

pooled_model ==
    << [block |-> "model",
        body  |-> << Stmt("y ~ normal(beta[1] + beta[2] * x, sigma);") >>] >>

unpooled_data ==
    << [block |-> "data",
        body  |-> << Decl("int", <<0>>, <<>>, "N", <<>>),
                     Decl("int", <<1>>, <<NumCounties>>, "county", <<Sym("N")>>),
                     Decl("vector", <<>>, <<>>, "x", <<Sym("N")>>),
                     Decl("vector", <<>>, <<>>, "y", <<Sym("N")>>) >>] >>

unpooled_parameters ==
    << [block |-> "parameters",
        body  |-> << Decl("vector", <<>>, <<>>, "a", <<Lit(NumCounties)>>),
                     Decl("real", <<>>, <<>>, "beta", <<>>),
                     Decl("real", <<0>>, <<100>>, "sigma", <<>>) >>] >>

unpooled_transformed_parameters ==
    << [block |-> "transformed parameters",
        body  |-> << Decl("vector", <<>>, <<>>, "y_hat", <<Sym("N")>>),
                     Stmt("for (i in 1:N)"),
                     Stmt("y_hat[i] <- beta * x[i] + a[county[i]];") >>] >>

unpooled_model ==
    << [block |-> "model",
        body  |-> << Stmt("y ~ normal(y_hat, sigma);") >>] >>

\* The names of the fragments of each notebook, in the order of their cells.
FragmentNames(n) ==
    IF n = "pooled"
    THEN <<"pooled_data", "pooled_parameters", "pooled_model">>
    ELSE <<"unpooled_data", "unpooled_parameters",
           "unpooled_transformed_parameters", "unpooled_model">>

AllFragmentNames ==
    {"pooled_data", "pooled_parameters", "pooled_model",
     "unpooled_data", "unpooled_parameters",
     "unpooled_transformed_parameters", "unpooled_model"}

\* The literal a fragment cell assigns.
Literal(name) ==
    CASE name = "pooled_data" -> pooled_data
      [] name = "pooled_parameters" -> pooled_parameters
      [] name = "pooled_model" -> pooled_model
      [] name = "unpooled_data" -> unpooled_data
      [] name = "unpooled_parameters" -> unpooled_parameters
      [] name = "unpooled_transformed_parameters" -> unpooled_transformed_parameters
      [] name = "unpooled_model" -> unpooled_model

(***************************************************************************)
(* The cells of each notebook, top to bottom.                              *)
(***************************************************************************)
\* The cells with the first fragment above the imports.
Cells_fragment_first(n) ==
    IF n = "pooled"
    THEN <<"pooled_data", "import", "pooled_parameters", "pooled_model",
           "fit", "extract", "inspect", "summarise", "plot">>
    ELSE <<"unpooled_data", "import", "unpooled_parameters",
           "unpooled_transformed_parameters", "unpooled_model",
           "fit", "summarise", "plot", "empty">>

Cells(n) ==
    IF n = "pooled"
    THEN <<"import", "pooled_data", "pooled_parameters", "pooled_model",
           "fit", "extract", "inspect", "summarise", "plot">>
    ELSE <<"import", "unpooled_data", "unpooled_parameters",
           "unpooled_transformed_parameters", "unpooled_model",
           "fit", "summarise", "plot", "empty">>

\* The names the import cell binds.
Imports(n) ==
    IF n = "pooled"
    THEN {"np", "plt", "pystan", "sns", "clean_data"}
    ELSE {"np", "plt", "pd", "pystan", "sns", "clean_data"}

DictName(n) == IF n = "pooled" THEN "pooled_data_dict" ELSE "unpooled_data_dict"
FitName(n) == IF n = "pooled" THEN "pooled_fit" ELSE "unpooled_fit"

\* The position after cell k has completed.
After(n, k) ==
    IF k < Len(Cells(n)) THEN [cell |-> k + 1, at |-> "start"]
    ELSE [cell |-> k, at |-> "done"]

AtCell(name) ==
    /\ pc.at = "start"
    /\ Cells(nb)[pc.cell] = name

(***************************************************************************)
(* The data-binding mapping: a dict from the names of the data block to    *)
(* the arrays of clean_data.  clean_data.county + 1 is numpy's elementwise *)
(* sum, a new array.                                                       *)
(***************************************************************************)
len(array) == Len(array)

AddScalar(array, k) == [i \in 1..Len(array) |-> array[i] + k]

\* Variants of the binding, each with one slip in it.
unpooled_data_dict_no_offset(cd) ==
    [N      |-> len(cd.log_radon),
     county |-> cd.county,
     x      |-> cd.floor_measure,
     y      |-> cd.log_radon]

unpooled_data_dict_wrong_N(cd) ==
    [N      |-> len(cd.mn_counties),
     county |-> AddScalar(cd.county, 1),
     x      |-> cd.floor_measure,
     y      |-> cd.log_radon]

unpooled_data_dict_wrong_key(cd) ==
    [N        |-> len(cd.log_radon),
     counties |-> AddScalar(cd.county, 1),
     x        |-> cd.floor_measure,
     y        |-> cd.log_radon]

pooled_data_dict_value(cd) ==
    [N |-> len(cd.log_radon),
     x |-> cd.floor_measure,
     y |-> cd.log_radon]

unpooled_data_dict_value(cd) ==
    [N      |-> len(cd.log_radon),
     county |-> AddScalar(cd.county, 1),
     x      |-> cd.floor_measure,
     y      |-> cd.log_radon]

DictValue(n, cd) ==
    IF n = "pooled" THEN pooled_data_dict_value(cd) ELSE unpooled_data_dict_value(cd)

(***************************************************************************)
(* The model_code argument: the + of the fragments bound in the kernel.    *)
(***************************************************************************)
\* Variants of the sum: the operands in another order, and one left out.
pooled_model_code_reordered(t) ==
    t["pooled_parameters"] \o t["pooled_data"] \o t["pooled_model"]

unpooled_model_code_three_fragments(t) ==
    t["unpooled_data"] \o t["unpooled_parameters"] \o t["unpooled_model"]

pooled_model_code(t) ==
    t["pooled_data"] \o t["pooled_parameters"] \o t["pooled_model"]

unpooled_model_code(t) ==
    t["unpooled_data"] \o t["unpooled_parameters"] \o
    t["unpooled_transformed_parameters"] \o t["unpooled_model"]

ModelCode(n, t) ==
    IF n = "pooled" THEN pooled_model_code(t) ELSE unpooled_model_code(t)

\* The exceptions the engine raises, and the value of raised when none was.
NoError == [type |-> "none", origin |-> "none"]

EngineErrors ==
    {[type |-> "ValueError", origin |-> "pystan.stan"],
     [type |-> "RuntimeError", origin |-> "pystan.stan"]}

\* A call that would leave iter and chains to the engine's defaults.
StanCall_engine_defaults(n, t, d) ==
    [model_code |-> ModelCode(n, t), data |-> d, iter |-> 2000, chains |-> 4]

\* pystan.stan(model_code=..., data=..., iter=1000, chains=2)
StanCall(n, t, d) ==
    [model_code |-> ModelCode(n, t), data |-> d, iter |-> Iter, chains |-> Chains]

\* A call as the engine holds it: its arguments, and how it ended.
Invocation(args) == [args |-> args, outcome |-> "in flight", error |-> NoError]

(***************************************************************************)
(* The inference engine.  It is external: what is modelled is what it does *)
(* with the arguments of the call.  It reads the blocks of model_code,     *)
(* checks the data mapping against the data block, and returns draws for   *)
(* every declared parameter, or raises.                                    *)
(***************************************************************************)
IsDecl(e) == "name" \in DOMAIN e

BlockNamed(b, name) == b.block = name

BodyOf(code, name) ==
    Flatten([k \in 1..Len(SelectSeq(code, LAMBDA b : BlockNamed(b, name))) |->
                SelectSeq(code, LAMBDA b : BlockNamed(b, name))[k].body])

DeclsOf(code, name) == SelectSeq(BodyOf(code, name), IsDecl)

DeclaredNames(code, name) ==
    {DeclsOf(code, name)[k].name : k \in 1..Len(DeclsOf(code, name))}

BlockRank(name) ==
    CASE name = "data" -> 1
      [] name = "parameters" -> 2
      [] name = "transformed parameters" -> 3
      [] name = "model" -> 4

\* The grammar wants the blocks in the order data, parameters,
\* transformed parameters, model, each at most once.
WellFormed(code) ==
    \A k \in 1..(Len(code) - 1) : BlockRank(code[k].block) < BlockRank(code[k + 1].block)

DimValue(dim, data) == IF "sym" \in DOMAIN dim THEN data[dim.sym] ELSE dim.lit

InBounds(v, decl) ==
    /\ IF decl.lower = <<>> THEN TRUE ELSE v >= decl.lower[1]
    /\ IF decl.upper = <<>> THEN TRUE ELSE v <= decl.upper[1]

\* One declaration of the data block against the mapping.
DeclAccepts(decl, data) ==
    /\ decl.name \in DOMAIN data
    /\ \A k \in 1..Len(decl.dims) :
          IF "sym" \in DOMAIN decl.dims[k] THEN decl.dims[k].sym \in DOMAIN data ELSE TRUE
    /\ IF decl.dims = <<>>
       THEN InBounds(data[decl.name], decl)
       ELSE /\ Len(data[decl.name]) = DimValue(decl.dims[1], data)
            /\ IF decl.type = "int"
               THEN \A i \in 1..Len(data[decl.name]) : InBounds(data[decl.name][i], decl)
               ELSE TRUE

Accepts(code, data) ==
    \A k \in 1..Len(DeclsOf(code, "data")) : DeclAccepts(DeclsOf(code, "data")[k], data)

\* The draws are one of a bounded family of integer tables.
Draw(seed, k, d, j) == (((seed + 2) * j + (seed + 1) * d * d + 3 * k) % 5) - 2

\* A run without warmup: every iteration kept.
Warmup_none(iter) == 0

\* The engine's default warmup: half of the iterations of a chain.
Warmup(iter) == iter \div 2

\* The draws kept of a call: the post-warmup iterations of every chain.
KeptDraws(call) == call.chains * (call.iter - Warmup(call.iter))

\* The draws the model holds of a call: the first NumDraws of those kept.
HeldDraws(call) == IF KeptDraws(call) < NumDraws THEN KeptDraws(call) ELSE NumDraws

DimsOf(decl, data) == [k \in 1..Len(decl.dims) |-> DimValue(decl.dims[k], data)]

DrawArray(n, seed, k, decl, data) ==
    IF decl.dims = <<>>
    THEN [d \in 1..n |-> Draw(seed, k, d, 1)]
    ELSE [d \in 1..n |->
            [j \in 1..DimValue(decl.dims[1], data) |-> Draw(seed, k, d, j)]]

ParamIndex(code, name) ==
    CHOOSE k \in 1..Len(DeclsOf(code, "parameters")) :
        DeclsOf(code, "parameters")[k].name = name

\* The shape of the array of draws the fit gives for a parameter: one row
\* per kept draw, then the declared dimensions (none for a scalar).
DrawsShape(call, name) ==
    <<KeptDraws(call)>>
    \o DimsOf(DeclsOf(call.model_code, "parameters")[ParamIndex(call.model_code, name)],
              call.data)

ParamDraws(n, seed, code, data) ==
    [name \in DeclaredNames(code, "parameters") |->
        DrawArray(n, seed, ParamIndex(code, name),
                  DeclsOf(code, "parameters")[ParamIndex(code, name)], data)]

\* A transformed parameter that would read the first intercept for every row.
y_hat_first_intercept(draws, data) ==
    [d \in 1..Len(draws["beta"]) |->
        [i \in 1..data.N |-> draws["beta"][d] * data.x[i] + draws["a"][d][1]]]

\* The transformed parameter: y_hat[i] <- beta * x[i] + a[county[i]].
y_hat(draws, data) ==
    [d \in 1..Len(draws["beta"]) |->
        [i \in 1..data.N |->
            draws["beta"][d] * data.x[i] + draws["a"][d][data.county[i]]]]

\* The fit object the engine returns, holding n draws of each parameter,
\* chains merged and warmup discarded.
StanFitOf(n, seed, call) ==
    LET draws == ParamDraws(n, seed, call.model_code, call.data)
    IN  IF \E k \in 1..Len(call.model_code) :
              call.model_code[k].block = "transformed parameters"
        THEN [name \in DOMAIN draws \cup {"y_hat"} |->
                IF name = "y_hat" THEN y_hat(draws, call.data) ELSE draws[name]]
        ELSE draws

StanFit(seed, call) == StanFitOf(HeldDraws(call), seed, call)

(***************************************************************************)
(* Summaries: numpy's mean and std along an axis, pandas' Series.          *)
(* A standard deviation is held exactly, as the square root of a rational. *)
(***************************************************************************)
\* A mean that would weigh the draws by their position.
Mean_by_position(col) ==
    Rat(SumSeq([d \in 1..Len(col) |-> d * col[d]]), SumSeq([d \in 1..Len(col) |-> d]))

Mean(col) == Rat(SumSeq(col), Len(col))

Variance(col) ==
    Rat(Len(col) * SumSeq([i \in 1..Len(col) |-> col[i] * col[i]])
            - SumSeq(col) * SumSeq(col),
        Len(col) * Len(col))

Std(col) == [sqrt |-> Variance(col)]

\* Column means that would come out in the reverse order of the columns.
mean_axis0_reversed(matrix) ==
    [j \in 1..Len(matrix[1]) |-> Mean(Column(matrix, Len(matrix[1]) + 1 - j))]

\* matrix.mean(0), matrix.std(0): one value per column.
mean_axis0(matrix) == [j \in 1..Len(matrix[1]) |-> Mean(Column(matrix, j))]
std_axis0(matrix) == [j \in 1..Len(matrix[1]) |-> Std(Column(matrix, j))]

\* matrix.T and matrix.mean(1): one value per row.
Transpose(matrix) == [j \in 1..Len(matrix[1]) |-> Column(matrix, j)]
mean_axis1(matrix) == [r \in 1..Len(matrix) |-> Mean(matrix[r])]

\* pd.Series(values, index=index)
Series(values, index) == [index |-> index, values |-> values]

\* series.sort_values().index: the labels by ascending value.  The sort is
\* not stable: equal values come out in either order of their positions.
Precedes_descending(values, q, p, tie) ==
    \/ RatLt(values[p], values[q])
    \/ /\ RatEq(values[q], values[p])
       /\ IF tie = "stable" THEN q < p ELSE q > p

Precedes(values, q, p, tie) ==
    \/ RatLt(values[q], values[p])
    \/ /\ RatEq(values[q], values[p])
       /\ IF tie = "stable" THEN q < p ELSE q > p

\* The rank of every position: one more than the positions that precede it.
Ranked(values, tie) ==
    {<<Cardinality({q \in 1..Len(values) : Precedes(values, q, p, tie)}) + 1, p>> :
        p \in 1..Len(values)}

\* The positions of values in ascending order of value.
SortedPositions(values, tie) ==
    CHOOSE pos \in {[k \in 1..Len(values) |-> (CHOOSE pr \in ranked : pr[1] = k)[2]] :
                       ranked \in {Ranked(values, tie)}} : TRUE

sort_values_index(series, tie) ==
    LET pos == SortedPositions(series.values, tie)
    IN  [k \in 1..Len(pos) |-> series.index[pos[k]]]

\* series[labels]: for each label in turn, every entry that carries it.
Positions(index, label) ==
    SelectSeq([i \in 1..Len(index) |-> i], LAMBDA i : index[i] = label)

TakePositions(series, pos) ==
    Series([k \in 1..Len(pos) |-> series.values[pos[k]]],
           [k \in 1..Len(pos) |-> series.index[pos[k]]])

Reindex(series, labels) ==
    CHOOSE taken \in
        {TakePositions(series, pos) :
            pos \in {Flatten([k \in 1..Len(labels) |-> Positions(series.index, labels[k])])}} :
        TRUE

(***************************************************************************)
(* Plotting: each call appends what it draws to the figure.                *)
(***************************************************************************)
\* A range that would include its end.
range_inclusive(n) == [k \in 1..(n + 1) |-> k - 1]

range(n) == [k \in 1..n |-> k - 1]

Min(a, b) == IF a <= b THEN a ELSE b

np_log(q) == [ln |-> q]

\* np.linspace(start, stop): LinspaceNum points, both ends included.
linspace(start, stop) ==
    [k \in 1..LinspaceNum |->
        RatAdd(start, RatMul(Rat(k - 1, LinspaceNum - 1), RatSub(stop, start)))]

Scatter(xs, ys) == [kind |-> "scatter", xs |-> xs, ys |-> ys]
Line(xs, ys, fmt) == [kind |-> "plot", xs |-> xs, ys |-> ys, fmt |-> fmt]
Limits(axis, lo, hi) == [kind |-> axis, lo |-> lo, hi |-> hi]
Label(kind, s) == [kind |-> kind, text |-> s]

\* A loop that would stop one triple short.
ErrorBars_one_short(n, ms, ses) ==
    [k \in 1..(Min(n, Min(Len(ms), Len(ses))) - 1) |->
        Line(<<k - 1, k - 1>>,
             <<[minus |-> <<ms[k], ses[k]>>], [plus |-> <<ms[k], ses[k]>>]>>,
             "b-")]

\* The loop over zip(range(len(estimates)), estimates[order], se[order]):
\* one vertical bar per triple, from m - se to m + se at x = i.
ErrorBars(n, ms, ses) ==
    [k \in 1..Min(n, Min(Len(ms), Len(ses))) |->
        Line(<<k - 1, k - 1>>,
             <<[minus |-> <<ms[k], ses[k]>>], [plus |-> <<ms[k], ses[k]>>]>>,
             "b-")]

\* What the unpooled plot cell draws, given estimates[order] and se[order].
unpooled_artists(n, ms, ses) ==
    << Scatter(range(n), ms) >>
    \o ErrorBars(n, ms, ses)
    \o << Limits("xlim", -1, 86),
          Limits("ylim", -1, 4),
          Label("title", "Variation in county radon estimates"),
          Label("xlabel", "Ordered county"),
          Label("ylabel", "Radon estimate") >>

\* A plot that would take the standard errors in the order of the index,
\* not in the order of the estimates.
unpooled_plot_se_by_position(estimates, se, ord) ==
    unpooled_artists(len(estimates.values), Reindex(estimates, ord).values, se.values)

unpooled_plot(estimates, se, ord) ==
    unpooled_artists(len(estimates.values),
                     Reindex(estimates, ord).values, Reindex(se, ord).values)

pooled_plot(cd, xs, slope, intercept) ==
    << Scatter(cd.srrs_mn.floor,
               [i \in 1..Len(cd.srrs_mn.activity) |->
                   np_log(RatAdd(cd.srrs_mn.activity[i], Rat(1, 10)))]),
       Line(xs, [k \in 1..Len(xs) |-> RatAdd(RatMul(slope, xs[k]), intercept)], "r--"),
       Label("title", "Fitted model"),
       Label("xlabel", "Floor"),
       Label("ylabel", "log(radon)") >>

(***************************************************************************)
(* Reading draws from the fit.  extract(permuted=True) and fit[name] give  *)
(* new arrays: the kept draws of all chains, merged, in a permuted order.  *)
(***************************************************************************)
Permuted(array, r) ==
    [d \in 1..Len(array) |-> array[((d - 1 + r) % Len(array)) + 1]]

extract(f, r) == [name \in DOMAIN f |-> Permuted(f[name], r)]

getitem(f, name, r) == extract(f, r)[name]

(***************************************************************************)
(* How the plotting calls fail.  plt.scatter raises a ValueError when x    *)
(* and y differ in size.  series[labels] with a label the index lacks      *)
(* raises a KeyError or fills the entry with NaN, by the pandas version.   *)
(***************************************************************************)
NaN == [nan |-> TRUE]

SizeMismatch(artist) == Len(artist.xs) # Len(artist.ys)

MissingLabels(series, labels) ==
    {labels[k] : k \in 1..Len(labels)} \ {series.index[i] : i \in 1..Len(series.index)}

\* What a lookup of labels in series does about labels that are missing.
LookupOutcomes(series, labels) ==
    IF MissingLabels(series, labels) = {} THEN {"found"} ELSE {"KeyError", "NaN"}

\* The series with a NaN entry for every label it lacks.
FillMissing(series, labels) ==
    LET missing == SelectSeq(labels, LAMBDA l : l \in MissingLabels(series, labels))
    IN  Series(series.values \o [k \in 1..Len(missing) |-> NaN],
               series.index \o missing)

(***************************************************************************)
(* The initial state: a fresh kernel, and any observation table.           *)
(***************************************************************************)
Unbound == <<>>

Init ==
    /\ nb \in {"pooled", "unpooled"}
    /\ pc = [cell |-> 1, at |-> "start"]
    /\ clean_data \in {CleanData(table) : table \in Tables}
    /\ defined = {}
    /\ text = [name \in AllFragmentNames |-> Unbound]
    /\ data_dict = Unbound
    /\ calls = <<>>
    /\ raised = NoError
    /\ fit = Unbound
    /\ pooled_sample = Unbound
    /\ b0 = Rat(0, 1)
    /\ m0 = Rat(0, 1)
    /\ unpooled_estimates = Series(Unbound, Unbound)
    /\ unpooled_se = Series(Unbound, Unbound)
    /\ order = Unbound
    /\ xvals = Unbound
    /\ figure = <<>>
    /\ history = <<>>

(***************************************************************************)
(* The cells.                                                              *)
(***************************************************************************)
\* %pylab inline and the imports.
ImportCell ==
    /\ AtCell("import")
    /\ defined' = defined \cup Imports(nb)
    /\ history' = Append(history, "import")
    /\ pc' = After(nb, pc.cell)
    /\ UNCHANGED <<nb, clean_data, text, data_dict, calls, raised, fit,
                   pooled_sample, b0, m0, unpooled_estimates, unpooled_se,
                   order, xvals, figure>>

\* A cell that assigns one fragment its literal.
FragmentCell ==
    /\ pc.at = "start"
    /\ Cells(nb)[pc.cell] \in AllFragmentNames
    /\ text' = [text EXCEPT ![Cells(nb)[pc.cell]] = Literal(Cells(nb)[pc.cell])]
    /\ defined' = defined \cup {Cells(nb)[pc.cell]}
    /\ history' = Append(history, Cells(nb)[pc.cell])
    /\ pc' = After(nb, pc.cell)
    /\ UNCHANGED <<nb, clean_data, data_dict, calls, raised, fit,
                   pooled_sample, b0, m0, unpooled_estimates, unpooled_se,
                   order, xvals, figure>>

\* The names the fit cell reads.
FitReads(n) ==
    {"clean_data", "pystan"} \cup {FragmentNames(n)[k] : k \in 1..Len(FragmentNames(n))}

\* A fit cell that would shift the host codes in place (clean_data.county += 1)
\* and bind the shifted array.
FitCell_shifting_in_place ==
    /\ AtCell("fit")
    /\ FitReads(nb) \subseteq defined
    /\ clean_data' = [clean_data EXCEPT !.county = AddScalar(clean_data.county, 1)]
    /\ data_dict' = IF nb = "pooled" THEN DictValue(nb, clean_data)
                    ELSE [DictValue(nb, clean_data) EXCEPT !.county = clean_data'.county]
    /\ defined' = defined \cup {DictName(nb)}
    /\ calls' = Append(calls, Invocation(StanCall(nb, text, data_dict')))
    /\ history' = history \o <<"bind", "invoke">>
    /\ pc' = [pc EXCEPT !.at = "engine"]
    /\ UNCHANGED <<nb, text, raised, fit, pooled_sample, b0, m0,
                   unpooled_estimates, unpooled_se, order, xvals, figure>>

\* A fit cell that would offset the county values bound by its last
\* execution, when there was one.
FitCell_offset_accumulating ==
    /\ AtCell("fit")
    /\ FitReads(nb) \subseteq defined
    /\ data_dict' = IF nb = "pooled" \/ data_dict = Unbound
                    THEN DictValue(nb, clean_data)
                    ELSE [data_dict EXCEPT !.county = AddScalar(data_dict.county, 1)]
    /\ defined' = defined \cup {DictName(nb)}
    /\ calls' = Append(calls, Invocation(StanCall(nb, text, data_dict')))
    /\ history' = history \o <<"bind", "invoke">>
    /\ pc' = [pc EXCEPT !.at = "engine"]
    /\ UNCHANGED <<nb, clean_data, text, raised, fit, pooled_sample, b0, m0,
                   unpooled_estimates, unpooled_se, order, xvals, figure>>

\* The fit cell, up to the call: it binds the mapping and calls the engine,
\* which then has the call in flight.
FitCell ==
    /\ AtCell("fit")
    /\ FitReads(nb) \subseteq defined
    /\ data_dict' = DictValue(nb, clean_data)
    /\ defined' = defined \cup {DictName(nb)}
    /\ calls' = Append(calls, Invocation(StanCall(nb, text, data_dict')))
    /\ history' = history \o <<"bind", "invoke">>
    /\ pc' = [pc EXCEPT !.at = "engine"]
    /\ UNCHANGED <<nb, clean_data, text, raised, fit, pooled_sample, b0, m0,
                   unpooled_estimates, unpooled_se, order, xvals, figure>>

\* The engine returns: the fit cell assigns the fit object and completes.
EngineReturns ==
    /\ pc.at = "engine"
    /\ WellFormed(calls[Len(calls)].args.model_code)
    /\ Accepts(calls[Len(calls)].args.model_code, calls[Len(calls)].args.data)
    /\ \E seed \in 0..MaxSeed : fit' = StanFit(seed, calls[Len(calls)].args)
    /\ calls' = [calls EXCEPT ![Len(calls)].outcome = "returned"]
    /\ defined' = defined \cup {FitName(nb)}
    /\ history' = Append(history, "return")
    /\ pc' = After(nb, pc.cell)
    /\ UNCHANGED <<nb, clean_data, text, data_dict, raised,
                   pooled_sample, b0, m0, unpooled_estimates, unpooled_se,
                   order, xvals, figure>>

\* A fit cell that would catch the engine's exception and run the call again.
EngineRaises_retry ==
    /\ pc.at = "engine"
    /\ \E e \in EngineErrors :
          calls' = [calls EXCEPT ![Len(calls)].outcome = "raised",
                                 ![Len(calls)].error = e]
    /\ Len(calls) < 2
    /\ history' = Append(history, "raise")
    /\ pc' = [pc EXCEPT !.at = "start"]
    /\ UNCHANGED <<nb, clean_data, defined, text, data_dict, raised, fit,
                   pooled_sample, b0, m0, unpooled_estimates, unpooled_se,
                   order, xvals, figure>>

\* A fit cell that would catch the engine's exception, raise one of its own
\* kind in its place, and leave the fit name bound to an empty result.
EngineRaises_caught ==
    /\ pc.at = "engine"
    /\ \E e \in EngineErrors :
          calls' = [calls EXCEPT ![Len(calls)].outcome = "raised",
                                 ![Len(calls)].error = e]
    /\ raised' = [type |-> "FitError", origin |-> "notebook"]
    /\ defined' = defined \cup {FitName(nb)}
    /\ history' = Append(history, "raise")
    /\ pc' = [pc EXCEPT !.at = "raised"]
    /\ UNCHANGED <<nb, clean_data, text, data_dict, fit,
                   pooled_sample, b0, m0, unpooled_estimates, unpooled_se,
                   order, xvals, figure>>

\* The engine returns, the fit object holding every kept draw.
EngineReturnsAll ==
    /\ pc.at = "engine"
    /\ WellFormed(calls[Len(calls)].args.model_code)
    /\ Accepts(calls[Len(calls)].args.model_code, calls[Len(calls)].args.data)
    /\ \E seed \in 0..MaxSeed :
          fit' = StanFitOf(KeptDraws(calls[Len(calls)].args), seed, calls[Len(calls)].args)
    /\ calls' = [calls EXCEPT ![Len(calls)].outcome = "returned"]
    /\ defined' = defined \cup {FitName(nb)}
    /\ history' = Append(history, "return")
    /\ pc' = After(nb, pc.cell)
    /\ UNCHANGED <<nb, clean_data, text, data_dict, raised,
                   pooled_sample, b0, m0, unpooled_estimates, unpooled_se,
                   order, xvals, figure>>

\* The engine raises: nothing in the cell catches it, the run ends there.
EngineRaises ==
    /\ pc.at = "engine"
    /\ \E e \in EngineErrors :
          /\ calls' = [calls EXCEPT ![Len(calls)].outcome = "raised",
                                    ![Len(calls)].error = e]
          /\ raised' = e
    /\ history' = Append(history, "raise")
    /\ pc' = [pc EXCEPT !.at = "raised"]
    /\ UNCHANGED <<nb, clean_data, defined, text, data_dict, fit,
                   pooled_sample, b0, m0, unpooled_estimates, unpooled_se,
                   order, xvals, figure>>

\* An extraction that would permute the draws of the fit object in place.
ExtractCell_in_place ==
    /\ AtCell("extract")
    /\ FitName(nb) \in defined
    /\ \E r \in 0..(NumDraws - 1) :
          /\ fit' = extract(fit, r)
          /\ pooled_sample' = fit'
    /\ defined' = defined \cup {"pooled_sample"}
    /\ history' = Append(history, "extract")
    /\ pc' = After(nb, pc.cell)
    /\ UNCHANGED <<nb, clean_data, text, data_dict, calls, raised,
                   b0, m0, unpooled_estimates, unpooled_se, order, xvals, figure>>

\* pooled_sample = pooled_fit.extract(permuted=True)
ExtractCell ==
    /\ AtCell("extract")
    /\ FitName(nb) \in defined
    /\ \E r \in 0..(NumDraws - 1) : pooled_sample' = extract(fit, r)
    /\ defined' = defined \cup {"pooled_sample"}
    /\ history' = Append(history, "extract")
    /\ pc' = After(nb, pc.cell)
    /\ UNCHANGED <<nb, clean_data, text, data_dict, calls, raised, fit,
                   b0, m0, unpooled_estimates, unpooled_se, order, xvals, figure>>

\* pooled_sample['beta']: the cell displays the draws.
InspectCell ==
    /\ AtCell("inspect")
    /\ "pooled_sample" \in defined
    /\ history' = Append(history, "inspect")
    /\ pc' = After(nb, pc.cell)
    /\ UNCHANGED <<nb, clean_data, defined, text, data_dict, calls, raised, fit,
                   pooled_sample, b0, m0, unpooled_estimates, unpooled_se,
                   order, xvals, figure>>

\* A summary that would give the slope first.
pooled_summary_slope_first(sample) ==
    <<mean_axis1(Transpose(sample["beta"]))[2], mean_axis1(Transpose(sample["beta"]))[1]>>

\* b0, m0 = pooled_sample['beta'].T.mean(1)
pooled_summary(sample) == mean_axis1(Transpose(sample["beta"]))

PooledSummariseCell ==
    /\ nb = "pooled"
    /\ AtCell("summarise")
    /\ "pooled_sample" \in defined
    /\ IF Len(pooled_summary(pooled_sample)) = 2
       THEN /\ b0' = pooled_summary(pooled_sample)[1]
            /\ m0' = pooled_summary(pooled_sample)[2]
            /\ defined' = defined \cup {"b0", "m0"}
            /\ history' = Append(history, "summarise")
            /\ pc' = After(nb, pc.cell)
            /\ UNCHANGED raised
       ELSE /\ raised' = [type |-> "ValueError", origin |-> "unpack"]
            /\ pc' = [pc EXCEPT !.at = "raised"]
            /\ UNCHANGED <<b0, m0, defined, history>>
    /\ UNCHANGED <<nb, clean_data, text, data_dict, calls, fit, pooled_sample,
                   unpooled_estimates, unpooled_se, order, xvals, figure>>

\* A summarise cell that would build the series without comparing the
\* number of values with the number of names.
UnpooledSummariseCell_unchecked_index ==
    /\ nb = "unpooled"
    /\ AtCell("summarise")
    /\ {FitName(nb), "pd", "clean_data"} \subseteq defined
    /\ \E r \in 0..(NumDraws - 1) :
          /\ unpooled_estimates' =
                Series(mean_axis0(getitem(fit, "a", r)), clean_data.mn_counties)
          /\ unpooled_se' =
                Series(std_axis0(getitem(fit, "a", r)), clean_data.mn_counties)
    /\ defined' = defined \cup {"unpooled_estimates", "unpooled_se"}
    /\ history' = Append(history, "summarise")
    /\ pc' = After(nb, pc.cell)
    /\ UNCHANGED <<nb, clean_data, text, data_dict, calls, raised, fit, pooled_sample,
                   b0, m0, order, xvals, figure>>

\* A summarise cell that would keep the standard errors it finds bound and
\* compute the estimates only.
UnpooledSummariseCell_se_cached ==
    /\ nb = "unpooled"
    /\ AtCell("summarise")
    /\ {FitName(nb), "pd", "clean_data"} \subseteq defined
    /\ \E r \in 0..(NumDraws - 1) :
          /\ unpooled_estimates' =
                Series(mean_axis0(getitem(fit, "a", r)), clean_data.mn_counties)
          /\ unpooled_se' =
                IF "unpooled_se" \in defined THEN unpooled_se
                ELSE Series(std_axis0(getitem(fit, "a", r)), clean_data.mn_counties)
    /\ defined' = defined \cup {"unpooled_estimates", "unpooled_se"}
    /\ history' = Append(history, "summarise")
    /\ pc' = After(nb, pc.cell)
    /\ UNCHANGED <<nb, clean_data, text, data_dict, calls, raised, fit, pooled_sample,
                   b0, m0, order, xvals, figure>>

\* unpooled_estimates = pd.Series(unpooled_fit['a'].mean(0), index=...)
\* unpooled_se = pd.Series(unpooled_fit['a'].std(0), index=...)
UnpooledSummariseCell ==
    /\ nb = "unpooled"
    /\ AtCell("summarise")
    /\ {FitName(nb), "pd", "clean_data"} \subseteq defined
    /\ \E r \in 0..(NumDraws - 1) :
          IF Len(mean_axis0(getitem(fit, "a", r))) = Len(clean_data.mn_counties)
          THEN /\ unpooled_estimates' =
                      Series(mean_axis0(getitem(fit, "a", r)), clean_data.mn_counties)
               /\ unpooled_se' =
                      Series(std_axis0(getitem(fit, "a", r)), clean_data.mn_counties)
               /\ defined' = defined \cup {"unpooled_estimates", "unpooled_se"}
               /\ history' = Append(history, "summarise")
               /\ pc' = After(nb, pc.cell)
               /\ UNCHANGED raised
          ELSE /\ raised' = [type |-> "ValueError", origin |-> "pd.Series"]
               /\ pc' = [pc EXCEPT !.at = "raised"]
               /\ UNCHANGED <<unpooled_estimates, unpooled_se, defined, history>>
    /\ UNCHANGED <<nb, clean_data, text, data_dict, calls, fit, pooled_sample,
                   b0, m0, order, xvals, figure>>

\* The plot cell of the pooled notebook.
PooledPlotCell ==
    /\ nb = "pooled"
    /\ AtCell("plot")
    /\ {"plt", "np", "clean_data", "b0", "m0"} \subseteq defined
    /\ IF SizeMismatch(pooled_plot(clean_data, linspace(Rat(-1, 10), Rat(12, 10)), m0, b0)[1])
       THEN /\ raised' = [type |-> "ValueError", origin |-> "plt.scatter"]
            /\ pc' = [pc EXCEPT !.at = "raised"]
            /\ UNCHANGED <<xvals, figure, defined, history>>
       ELSE /\ xvals' = linspace(Rat(-1, 10), Rat(12, 10))
            /\ figure' = figure \o pooled_plot(clean_data, xvals', m0, b0)
            /\ defined' = defined \cup {"xvals"}
            /\ history' = Append(history, "plot")
            /\ pc' = After(nb, pc.cell)
            /\ UNCHANGED raised
    /\ UNCHANGED <<nb, clean_data, text, data_dict, calls, fit,
                   pooled_sample, b0, m0, unpooled_estimates, unpooled_se, order>>

\* A plot cell that would sort the estimates in place before drawing them.
UnpooledPlotCell_sorting_in_place ==
    /\ nb = "unpooled"
    /\ AtCell("plot")
    /\ {"plt", "unpooled_estimates", "unpooled_se"} \subseteq defined
    /\ \E tie \in {"stable", "reverse"} :
          order' = sort_values_index(unpooled_estimates, tie)
    /\ unpooled_estimates' = Reindex(unpooled_estimates, order')
    /\ figure' = figure \o unpooled_plot(unpooled_estimates', unpooled_se, order')
    /\ defined' = defined \cup {"order", "i", "m", "se"}
    /\ history' = Append(history, "plot")
    /\ pc' = After(nb, pc.cell)
    /\ UNCHANGED <<nb, clean_data, text, data_dict, calls, raised, fit,
                   pooled_sample, b0, m0, unpooled_se, xvals>>

\* What the unpooled plot cell does once order is bound: the scatter raises
\* on a size mismatch; the lookup of order in unpooled_se raises on a
\* missing label, after the scatter is drawn; otherwise the cell completes.
UnpooledPlotDraws(ord, outcome) ==
    LET drawn == unpooled_plot(unpooled_estimates, FillMissing(unpooled_se, ord), ord)
    IN  IF SizeMismatch(drawn[1])
        THEN /\ raised' = [type |-> "ValueError", origin |-> "plt.scatter"]
             /\ pc' = [pc EXCEPT !.at = "raised"]
             /\ defined' = defined \cup {"order"}
             /\ UNCHANGED <<figure, history>>
        ELSE IF outcome = "KeyError"
        THEN /\ raised' = [type |-> "KeyError", origin |-> "unpooled_se[order]"]
             /\ pc' = [pc EXCEPT !.at = "raised"]
             /\ figure' = Append(figure, drawn[1])
             /\ defined' = defined \cup {"order"}
             /\ UNCHANGED history
        ELSE /\ figure' = figure \o drawn
             /\ defined' = defined \cup {"order", "i", "m", "se"}
             /\ history' = Append(history, "plot")
             /\ pc' = After(nb, pc.cell)
             /\ UNCHANGED raised

\* The plot cell of the unpooled notebook.
UnpooledPlotCell ==
    /\ nb = "unpooled"
    /\ AtCell("plot")
    /\ {"plt", "unpooled_estimates", "unpooled_se"} \subseteq defined
    /\ \E tie \in {"stable", "reverse"} :
          order' = sort_values_index(unpooled_estimates, tie)
    /\ \E outcome \in LookupOutcomes(unpooled_se, order') :
          UnpooledPlotDraws(order', outcome)
    /\ UNCHANGED <<nb, clean_data, text, data_dict, calls, fit,
                   pooled_sample, b0, m0, unpooled_estimates, unpooled_se, xvals>>

\* The empty cell that ends the unpooled notebook.
EmptyCell ==
    /\ AtCell("empty")
    /\ pc' = After(nb, pc.cell)
    /\ UNCHANGED <<nb, clean_data, defined, text, data_dict, calls, raised, fit,
                   pooled_sample, b0, m0, unpooled_estimates, unpooled_se,
                   order, xvals, figure, history>>

Next ==
    \/ ImportCell
    \/ FragmentCell
    \/ FitCell
    \/ EngineReturns
    \/ EngineRaises
    \/ ExtractCell
    \/ InspectCell
    \/ PooledSummariseCell
    \/ UnpooledSummariseCell
    \/ PooledPlotCell
    \/ UnpooledPlotCell
    \/ EmptyCell

Spec == Init /\ [][Next]_vars

(***************************************************************************)
(* Summarisation on its own: the summarise cell of either notebook, run    *)
(* and run again in one kernel on a fixed, fabricated sample, whatever the *)
(* rest of the kernel holds.                                               *)
(***************************************************************************)
CellIndex(n, name) == CHOOSE k \in 1..Len(Cells(n)) : Cells(n)[k] = name

FabricatedEntries == {-1, 0, 2}

\* Fabricated draws of the pooled beta: NumDraws rows of (intercept, slope).
FabricatedBeta == [1..NumDraws -> [1..2 -> FabricatedEntries]]

\* Fabricated draws of the unpooled a: NumDraws rows, one column per county.
FabricatedA ==
    {[d \in 1..NumDraws |-> [j \in 1..NumCounties |-> Draw(seed, k, d, j)]] :
        seed \in 0..MaxSeed, k \in 1..3}

\* The tables of at most one row.
SmallTables == {table \in Tables : Len(table) <= 1}

InitSummarise ==
    /\ nb \in {"pooled", "unpooled"}
    /\ pc = [cell |-> CellIndex(nb, "summarise"), at |-> "start"]
    /\ clean_data \in {CleanData(table) : table \in SmallTables}
    /\ defined = Imports(nb) \cup {FitName(nb)}
                  \cup (IF nb = "pooled" THEN {"pooled_sample"} ELSE {})
    /\ text = [name \in AllFragmentNames |-> Unbound]
    /\ data_dict = Unbound
    /\ calls = <<>>
    /\ raised = NoError
    /\ IF nb = "pooled"
       THEN /\ \E beta \in FabricatedBeta : pooled_sample = [beta |-> beta]
            /\ fit = pooled_sample
       ELSE /\ \E a \in FabricatedA : fit = [a |-> a]
            /\ pooled_sample = Unbound
    /\ b0 = Rat(0, 1)
    /\ m0 = Rat(0, 1)
    /\ unpooled_estimates = Series(Unbound, Unbound)
    /\ unpooled_se = Series(Unbound, Unbound)
    /\ order = Unbound
    /\ xvals = Unbound
    /\ figure = <<>>
    /\ history = <<>>

\* The summarise cell is selected and run again.
RerunSummariseCell ==
    /\ pc = After(nb, CellIndex(nb, "summarise"))
    /\ Cardinality({k \in 1..Len(history) : history[k] = "summarise"}) < MaxRuns
    /\ pc' = [cell |-> CellIndex(nb, "summarise"), at |-> "start"]
    /\ UNCHANGED <<nb, clean_data, defined, text, data_dict, calls, raised, fit,
                   pooled_sample, b0, m0, unpooled_estimates, unpooled_se,
                   order, xvals, figure, history>>

NextSummarise ==
    \/ PooledSummariseCell
    \/ UnpooledSummariseCell
    \/ RerunSummariseCell

SpecSummarise == InitSummarise /\ [][NextSummarise]_vars

(***************************************************************************)
(* Plotting on its own: the plot cell of either notebook, run on           *)
(* fabricated summaries.  The unpooled summaries are the column summaries  *)
(* of fabricated draws, indexed by the county names; a standard-deviation  *)
(* series that lacks the last county is among them.                        *)
(***************************************************************************)
FabricatedScalars == {Rat(-1, 2), Rat(0, 1), Rat(3, 2)}

Truncated(series, n) ==
    Series(SubSeq(series.values, 1, n), SubSeq(series.index, 1, n))

InitPlot ==
    /\ nb \in {"pooled", "unpooled"}
    /\ pc = [cell |-> CellIndex(nb, "plot"), at |-> "start"]
    /\ clean_data \in {CleanData(table) :
                          table \in IF nb = "pooled" THEN Tables ELSE SmallTables}
    /\ defined = Imports(nb) \cup (IF nb = "pooled" THEN {"b0", "m0"}
                                   ELSE {"unpooled_estimates", "unpooled_se"})
    /\ text = [name \in AllFragmentNames |-> Unbound]
    /\ data_dict = Unbound
    /\ calls = <<>>
    /\ raised = NoError
    /\ fit = Unbound
    /\ pooled_sample = Unbound
    /\ IF nb = "pooled"
       THEN /\ b0 \in FabricatedScalars
            /\ m0 \in FabricatedScalars
            /\ unpooled_estimates = Series(Unbound, Unbound)
            /\ unpooled_se = Series(Unbound, Unbound)
       ELSE /\ b0 = Rat(0, 1)
            /\ m0 = Rat(0, 1)
            /\ \E a \in FabricatedA, n \in {NumCounties - 1, NumCounties} :
                  /\ unpooled_estimates = Series(mean_axis0(a), mn_counties)
                  /\ unpooled_se = Truncated(Series(std_axis0(a), mn_counties), n)
    /\ order = Unbound
    /\ xvals = Unbound
    /\ figure = <<>>
    /\ history = <<>>

NextPlot ==
    \/ PooledPlotCell
    \/ UnpooledPlotCell

SpecPlot == InitPlot /\ [][NextPlot]_vars

(***************************************************************************)
(* The run up to the return of the engine, over the tables of at most one  *)
(* row, with the fit object holding every draw the engine keeps.           *)
(***************************************************************************)
InitShapes ==
    /\ Init
    /\ clean_data \in {CleanData(table) : table \in SmallTables}

NextShapes ==
    \/ ImportCell
    \/ FragmentCell
    \/ FitCell
    \/ EngineReturnsAll

SpecShapes == InitShapes /\ [][NextShapes]_vars

(***************************************************************************)
(* The run as the kernel schedules it: a cell that can run does run, one   *)
(* after the other.  Nothing is assumed of the engine: the call blocks     *)
(* until the engine returns or raises, if ever.  The unpooled plot cell is *)
(* scheduled by what makes it runnable and by its leaving its position:    *)
(* with its names bound it always has a step, to the next cell or to the   *)
(* raise.                                                                  *)
(***************************************************************************)
CellStep ==
    \/ ImportCell
    \/ FragmentCell
    \/ FitCell
    \/ ExtractCell
    \/ InspectCell
    \/ PooledSummariseCell
    \/ UnpooledSummariseCell
    \/ PooledPlotCell
    \/ EmptyCell

UnpooledPlotCellRuns ==
    /\ nb = "unpooled"
    /\ AtCell("plot")
    /\ {"plt", "unpooled_estimates", "unpooled_se"} \subseteq defined
    /\ pc' \in {After(nb, pc.cell), [pc EXCEPT !.at = "raised"]}

SpecScheduled ==
    InitShapes /\ [][Next]_vars /\ WF_vars(CellStep) /\ WF_pc(UnpooledPlotCellRuns)

(***************************************************************************)
(* The unpooled run over data modules that enumerate one county fewer or   *)
(* one more than the model text declares, or as many; the rows carry the   *)
(* first and the last code of the enumeration.                             *)
(***************************************************************************)
CountyNames(n) == [j \in 1..n |-> <<"county", j>>]

GroupCounts == {NumCounties - 1, NumCounties, NumCounties + 1}

ProvidedData(n) ==
    {[CleanData(table) EXCEPT
         !.mn_counties = CountyNames(n),
         !.county = [i \in 1..Len(table) |->
                        IF table[i].county_code = 0 THEN 0 ELSE n - 1]] :
        table \in SmallTables}

InitCounties ==
    /\ nb = "unpooled"
    /\ pc = [cell |-> 1, at |-> "start"]
    /\ clean_data \in UNION {ProvidedData(n) : n \in GroupCounts}
    /\ defined = {}
    /\ text = [name \in AllFragmentNames |-> Unbound]
    /\ data_dict = Unbound
    /\ calls = <<>>
    /\ raised = NoError
    /\ fit = Unbound
    /\ pooled_sample = Unbound
    /\ b0 = Rat(0, 1)
    /\ m0 = Rat(0, 1)
    /\ unpooled_estimates = Series(Unbound, Unbound)
    /\ unpooled_se = Series(Unbound, Unbound)
    /\ order = Unbound
    /\ xvals = Unbound
    /\ figure = <<>>
    /\ history = <<>>

NextCounties ==
    \/ ImportCell
    \/ FragmentCell
    \/ FitCell
    \/ EngineReturns
    \/ EngineRaises
    \/ UnpooledSummariseCell
    \/ UnpooledPlotCell
    \/ EmptyCell

SpecCounties == InitCounties /\ [][NextCounties]_vars

(***************************************************************************)
(* The unpooled notebook used interactively: in one kernel, whoever runs   *)
(* it selects any cell while the kernel is idle and runs from there, a     *)
(* bounded number of times.  A cell that reads an unbound name raises a    *)
(* NameError; all but the fit cell do so before they assign anything and   *)
(* leave the kernel as it was, the fit cell after it has bound the         *)
(* mapping.                                                                *)
(***************************************************************************)
MaxSelections == 1

Selections == Cardinality({k \in 1..Len(history) : history[k] = "select"})

\* The tables of one row of the first or of the last county.
OneRowTables ==
    {table \in SmallTables :
        /\ Len(table) = 1
        /\ table[1].log_radon = Rat(8, 10)
        /\ table[1].floor = 0}

InitInteractive ==
    /\ Init
    /\ nb = "unpooled"
    /\ clean_data \in {CleanData(table) : table \in OneRowTables}

\* A cell is selected for execution; the exception of the last execution,
\* if any, is no longer in flight.
SelectCell ==
    /\ pc.at \in {"start", "done", "raised"}
    /\ Selections < MaxSelections
    /\ \E k \in 1..Len(Cells(nb)) : pc' = [cell |-> k, at |-> "start"]
    /\ raised' = NoError
    /\ history' = Append(history, "select")
    /\ UNCHANGED <<nb, clean_data, defined, text, data_dict, calls, fit,
                   pooled_sample, b0, m0, unpooled_estimates, unpooled_se,
                   order, xvals, figure>>

\* The fit cell with a fragment or pystan unbound: the mapping is bound,
\* then the expression of the call raises a NameError.
FitCellNameError ==
    /\ AtCell("fit")
    /\ "clean_data" \in defined
    /\ ~(FitReads(nb) \subseteq defined)
    /\ data_dict' = DictValue(nb, clean_data)
    /\ defined' = defined \cup {DictName(nb)}
    /\ raised' = [type |-> "NameError", origin |-> "fit cell"]
    /\ history' = Append(history, "bind")
    /\ pc' = [pc EXCEPT !.at = "raised"]
    /\ UNCHANGED <<nb, clean_data, text, calls, fit, pooled_sample, b0, m0,
                   unpooled_estimates, unpooled_se, order, xvals, figure>>

NextInteractive ==
    \/ SelectCell
    \/ ImportCell
    \/ FragmentCell
    \/ FitCell
    \/ FitCellNameError
    \/ EngineReturns
    \/ EngineRaises
    \/ UnpooledSummariseCell
    \/ UnpooledPlotCell
    \/ EmptyCell

SpecInteractive == InitInteractive /\ [][NextInteractive]_vars

(***************************************************************************)
(* Properties of the run.                                                  *)
(***************************************************************************)
\* The declaration of a name in the data block of the unpooled fragments.
DataDecl(name) ==
    DeclsOf(unpooled_data, "data")[
        CHOOSE k \in 1..Len(DeclsOf(unpooled_data, "data")) :
            DeclsOf(unpooled_data, "data")[k].name = name]

HostCodesInRange ==
    \A i \in 1..Len(clean_data.county) : clean_data.county[i] \in 0..(NumCounties - 1)

\* C1: in the unpooled binding, the value bound under 'county' for row i is
\* clean_data.county[i] + 1, and it lies within the bounds the data block
\* declares for county (1..85), whenever the host codes are 0-based indices
\* into the 85 counties; no row is bound with 0 or with a value above 85.
C1_CountyOffsetInRange ==
    ("unpooled_data_dict" \in defined /\ HostCodesInRange) =>
        /\ Len(data_dict.county) = Len(clean_data.county)
        /\ DataDecl("county").lower = <<1>>
        /\ DataDecl("county").upper = <<85>>
        /\ \A i \in 1..Len(clean_data.county) :
              /\ data_dict.county[i] = clean_data.county[i] + 1
              /\ InBounds(data_dict.county[i], DataDecl("county"))
              /\ data_dict.county[i] # 0
              /\ data_dict.county[i] <= 85

\* Both ends of the range are bound in one mapping: code 0 as 1, code 84 as 85.
C1_Witness ==
    /\ "unpooled_data_dict" \in defined
    /\ HostCodesInRange
    /\ \E i, j \in 1..Len(clean_data.county) :
          /\ clean_data.county[i] = 0 /\ data_dict.county[i] = 1
          /\ clean_data.county[j] = 84 /\ data_dict.county[j] = 85

\* C2: in both notebooks every array of the data-binding mapping (x, y, and
\* county in the unpooled notebook) has as many elements as the value bound
\* to N, and N is len(clean_data.log_radon).
C2_BoundArraysHaveLengthN ==
    DictName(nb) \in defined =>
        /\ data_dict.N = Len(clean_data.log_radon)
        /\ \A key \in DOMAIN data_dict \ {"N"} : Len(data_dict[key]) = data_dict.N
        /\ {"x", "y"} \subseteq DOMAIN data_dict
        /\ nb = "unpooled" => "county" \in DOMAIN data_dict

\* The unpooled mapping is bound over a table of two rows.
C2_Witness ==
    /\ nb = "unpooled"
    /\ "unpooled_data_dict" \in defined
    /\ data_dict.N = 2
    /\ Len(data_dict.county) = 2

\* C3: in both notebooks every input name the data block declares (pooled:
\* N, x, y; unpooled: N, county, x, y) is a key of the mapping passed to the
\* inference call.
C3_DeclaredInputsBound ==
    \A k \in 1..Len(calls) :
        /\ DeclaredNames(calls[k].args.model_code, "data") =
              (IF nb = "pooled" THEN {"N", "x", "y"} ELSE {"N", "county", "x", "y"})
        /\ DeclaredNames(calls[k].args.model_code, "data") \subseteq DOMAIN calls[k].args.data

\* The unpooled call has been made, with county among the declared inputs.
C3_Witness ==
    /\ nb = "unpooled"
    /\ Len(calls) = 1
    /\ "county" \in DeclaredNames(calls[1].args.model_code, "data")
    /\ "county" \in DOMAIN calls[1].args.data

\* The kinds of block a piece of model text spells, in order.
BlocksOf(code) == [k \in 1..Len(code) |-> code[k].block]

\* How often an event occurs in the history of the run.
Occurrences(event) == Cardinality({k \in 1..Len(history) : history[k] = event})

\* C4: a fragment, once assigned, keeps its text in every later step, the
\* steps after the inference call included, and is assigned once; the
\* model_code of the call is the concatenation of the notebook's fragments
\* in the order data, parameters, (transformed parameters,) model.
C4_FragmentsFrozenAndConcatenated ==
    /\ [][\A name \in AllFragmentNames :
             name \in defined => (name \in defined' /\ text'[name] = text[name])]_vars
    /\ [][Len(calls) > 0 => text' = text]_vars
    /\ [](\A name \in AllFragmentNames :
             /\ Occurrences(name) <= 1
             /\ name \in defined => text[name] = Literal(name))
    /\ [](\A k \in 1..Len(calls) :
             /\ calls[k].args.model_code =
                   Flatten([i \in 1..Len(FragmentNames(nb)) |-> text[FragmentNames(nb)[i]]])
             /\ BlocksOf(calls[k].args.model_code) \in
                   {<<"data", "parameters", "model">>,
                    <<"data", "parameters", "transformed parameters", "model">>})

\* The pooled run has ended, after the call, with every fragment as assigned.
C4_Witness ==
    /\ nb = "pooled"
    /\ pc.at = "done"
    /\ Len(calls) = 1
    /\ figure # <<>>
    /\ \A i \in 1..3 : text[FragmentNames("pooled")[i]] = Literal(FragmentNames("pooled")[i])

\* C5, as stated: in every notebook the model_code of the call is the sum of
\* exactly three fragments, spelling the data, parameters and model blocks.
C5_ThreeFragmentsInEveryNotebook ==
    \A k \in 1..Len(calls) :
        \E a, b, c \in AllFragmentNames :
            /\ calls[k].args.model_code = text[a] \o text[b] \o text[c]
            /\ BlocksOf(calls[k].args.model_code) = <<"data", "parameters", "model">>

\* C5, amended: the pooled model_code is the sum of exactly three fragments
\* (data, parameters, model); the unpooled model_code is the sum of exactly
\* four (data, parameters, transformed parameters, model).
C5_ThreeOrFourFragments ==
    \A k \in 1..Len(calls) :
        IF nb = "pooled"
        THEN /\ calls[k].args.model_code =
                   text["pooled_data"] \o text["pooled_parameters"] \o text["pooled_model"]
             /\ BlocksOf(calls[k].args.model_code) = <<"data", "parameters", "model">>
        ELSE /\ calls[k].args.model_code =
                   text["unpooled_data"] \o text["unpooled_parameters"]
                   \o text["unpooled_transformed_parameters"] \o text["unpooled_model"]
             /\ BlocksOf(calls[k].args.model_code) =
                   <<"data", "parameters", "transformed parameters", "model">>

\* The unpooled call has been made with a model_code of four blocks.
C5_Witness ==
    /\ nb = "unpooled"
    /\ Len(calls) = 1
    /\ Len(calls[1].args.model_code) = 4
    /\ calls[1].args.model_code[3].block = "transformed parameters"

\* The stage of the run an event of the history belongs to.
Stage(event) ==
    CASE event = "import" -> 1
      [] event \in AllFragmentNames \cup {"bind"} -> 2
      [] event \in {"invoke", "return", "raise"} -> 3
      [] event \in {"extract", "inspect"} -> 4
      [] event = "summarise" -> 5
      [] event = "plot" -> 6

SummariesOrPlotExist ==
    \/ {"pooled_sample", "b0", "m0", "unpooled_estimates", "unpooled_se"} \cap defined # {}
    \/ figure # <<>>

\* C6: the steps of a run occur in the order load data, assemble fragments
\* and mapping, invoke the engine, extract, summarise, plot; while the call
\* is in flight the only step is the engine's return or raise; the call is
\* made only with every fragment and the mapping bound; and a summary or a
\* plot exists only after the call has returned.
C6_StepsInOrder ==
    /\ [](\A i, j \in 1..Len(history) : i < j => Stage(history[i]) <= Stage(history[j]))
    /\ [](history # <<>> => history[1] = "import")
    /\ [](\A k \in 1..Len(calls) :
             /\ {FragmentNames(nb)[i] : i \in 1..Len(FragmentNames(nb))} \subseteq defined
             /\ DictName(nb) \in defined
             /\ calls[k].args.data = data_dict)
    /\ [](SummariesOrPlotExist =>
             (Len(calls) = 1 /\ calls[1].outcome = "returned" /\ FitName(nb) \in defined))
    /\ [][pc.at = "engine" =>
             /\ calls'[Len(calls)].outcome \in {"returned", "raised"}
             /\ history'[Len(history')] \in {"return", "raise"}]_vars

\* The pooled run has gone through every stage, the plot last.
C6_Witness ==
    /\ nb = "pooled"
    /\ pc.at = "done"
    /\ Len(history) = 11
    /\ history[Len(history)] = "plot"
    /\ {Stage(history[k]) : k \in 1..Len(history)} = 1..6

\* C7: in one run the engine is called at most once, and exactly once in a
\* run that reaches the end; a call that has returned or raised is never
\* followed by another call, and the fit is assigned only by its return.
C7_EngineInvokedOnce ==
    /\ [](Len(calls) <= 1)
    /\ [](Occurrences("invoke") = Len(calls))
    /\ [](pc.at = "done" => (Len(calls) = 1 /\ calls[1].outcome = "returned"))
    /\ [][Len(calls') # Len(calls) => (calls = <<>> /\ Len(calls') = 1)]_vars
    /\ [][\A k \in 1..Len(calls) :
             calls[k].outcome # "in flight" => (Len(calls') = Len(calls) /\ calls'[k] = calls[k])]_vars
    /\ [][fit' # fit => (pc.at = "engine" /\ calls'[Len(calls)].outcome = "returned")]_vars

\* The one call of a run has raised, and the run has ended there.
C7_Witness ==
    /\ pc.at = "raised"
    /\ Len(calls) = 1
    /\ calls[1].outcome = "raised"
    /\ raised.type = "ValueError"

\* C8: when the call raises, the exception that ends the run is the one the
\* engine raised, the fit name is not bound, no extraction, summary or plot
\* exists, and no further step of the run is taken.
C8_RaisePropagates ==
    /\ [](\A k \in 1..Len(calls) :
             calls[k].outcome = "raised" =>
                /\ pc.at = "raised"
                /\ raised = calls[k].error
                /\ raised \in EngineErrors
                /\ FitName(nb) \notin defined
                /\ fit = Unbound
                /\ ~SummariesOrPlotExist
                /\ history[Len(history)] = "raise")
    /\ [][\A k \in 1..Len(calls) : calls[k].outcome # "raised"]_vars

\* The unpooled call has raised a RuntimeError, which ended the run.
C8_Witness ==
    /\ nb = "unpooled"
    /\ Len(calls) = 1
    /\ calls[1].outcome = "raised"
    /\ raised = [type |-> "RuntimeError", origin |-> "pystan.stan"]
    /\ fit = Unbound

\* C9: once the call has returned, no step changes the fit object, and once
\* the draws are extracted no step changes them: extraction, mean and
\* standard deviation, sorting and plotting leave both as they were.
C9_FitAndDrawsReadOnly ==
    /\ [][FitName(nb) \in defined => fit' = fit]_vars
    /\ []["pooled_sample" \in defined => pooled_sample' = pooled_sample]_vars
    /\ [](FitName(nb) \in defined =>
             \E seed \in 0..MaxSeed : fit = StanFit(seed, calls[1].args))

\* The pooled run has ended; the extracted draws are a permuted copy and the
\* fit object holds the draws in the order the engine returned them.
C9_Witness ==
    /\ nb = "pooled"
    /\ pc.at = "done"
    /\ "pooled_fit" \in defined
    /\ pooled_sample["beta"] # fit["beta"]

\* The names the plot cells bind.
PlotNames == {"xvals", "order", "i", "m", "se"}

\* C10: a plot cell leaves the fragments, the mapping, the calls, the fit
\* object, the extracted draws and the summaries unchanged; and every step
\* that builds the model or runs the inference is taken before anything is
\* drawn, and reads no name a plot cell binds.
C10_PlottingIsASink ==
    /\ [][AtCell("plot") =>
             /\ text' = text
             /\ data_dict' = data_dict
             /\ calls' = calls
             /\ fit' = fit
             /\ pooled_sample' = pooled_sample
             /\ b0' = b0
             /\ m0' = m0
             /\ unpooled_estimates' = unpooled_estimates
             /\ unpooled_se' = unpooled_se]_vars
    /\ [][(text' # text \/ data_dict' # data_dict \/ calls' # calls \/ fit' # fit) =>
             (figure = <<>> /\ PlotNames \cap defined = {})]_vars
    /\ [](FitReads(nb) \cap PlotNames = {})

\* The unpooled plot has been drawn from the sorted estimates.
C10_Witness ==
    /\ nb = "unpooled"
    /\ figure # <<>>
    /\ order # Unbound
    /\ Len(unpooled_estimates.values) = NumCounties
\* C11: no step changes clean_data: log_radon, floor_measure, county and
\* mn_counties are in every state what the data module supplied; after the
\* unpooled mapping is bound, clean_data.county still holds the 0-based
\* codes, one less than the bound values, which are held in another array.
C11_CleanDataReadOnly ==
    /\ [][/\ clean_data'.log_radon = clean_data.log_radon
          /\ clean_data'.floor_measure = clean_data.floor_measure
          /\ clean_data'.county = clean_data.county
          /\ clean_data'.mn_counties = clean_data.mn_counties]_vars
    /\ []("unpooled_data_dict" \in defined =>
             /\ \A i \in 1..Len(clean_data.county) :
                   /\ clean_data.county[i] \in 0..(NumCounties - 1)
                   /\ clean_data.county[i] = data_dict.county[i] - 1
             /\ clean_data.county # <<>> => clean_data.county # data_dict.county)
    /\ [](clean_data \in {CleanData(table) : table \in Tables})

\* The unpooled run has ended; a row of code 0 was bound as 1 and the host
\* code is still 0.
C11_Witness ==
    /\ nb = "unpooled"
    /\ pc.at = "done"
    /\ \E i \in 1..Len(clean_data.county) :
          clean_data.county[i] = 0 /\ data_dict.county[i] = 1
WellFormedSummaries ==
    /\ Len(unpooled_estimates.values) = Len(unpooled_se.values)
    /\ unpooled_estimates.index = unpooled_se.index
    /\ Len(unpooled_estimates.index) = Len(unpooled_estimates.values)

\* C13: on well-formed summaries (estimates and standard deviations of
\* equal length, with the same county names as index; finite b0 and m0) the
\* plot cell of either notebook raises nothing, and once it has run it has
\* drawn its whole figure.
C13_PlotDoesNotRaise ==
    WellFormedSummaries =>
        /\ raised = NoError
        /\ pc.at # "raised"
        /\ pc # [cell |-> CellIndex(nb, "plot"), at |-> "start"] =>
              /\ history = <<"plot">>
              /\ Len(figure) = (IF nb = "pooled" THEN 5 ELSE 1 + NumCounties + 5)

\* The unpooled plot cell has drawn the scatter, one bar per county and the
\* five decorations from well-formed summaries.
C13_Witness ==
    /\ nb = "unpooled"
    /\ WellFormedSummaries
    /\ unpooled_estimates.index = mn_counties
    /\ raised = NoError
    /\ Len(figure) = NumCounties + 6
    /\ history = <<"plot">>
\* C14: every call to the engine, in either notebook, is made with
\* iter = 1000 and chains = 2, beside model_code and data and nothing else.
C14_SameScalarConfiguration ==
    \A k \in 1..Len(calls) :
        /\ calls[k].args.iter = 1000
        /\ calls[k].args.chains = 2
        /\ DOMAIN calls[k].args = {"model_code", "data", "iter", "chains"}

\* The pooled call is in flight with 1000 iterations of 2 chains.
C14_Witness ==
    /\ nb = "pooled"
    /\ pc.at = "engine"
    /\ Len(calls) = 1
    /\ calls[1].args.iter = 1000
    /\ calls[1].args.chains = 2
\* The draws of a parameter as the fit gives them by name, in any of the
\* orders the model draws them in.
RetrievedByName(name) == {getitem(fit, name, r) : r \in 0..1}

ParamDecl(fragment, name) ==
    DeclsOf(fragment, "parameters")[ParamIndex(fragment, name)]

\* The domain of one scalar of a declared parameter: the element type and
\* the declared bounds.
ScalarDomain(decl) ==
    [type  |-> IF decl.type = "vector" THEN "real" ELSE decl.type,
     lower |-> decl.lower,
     upper |-> decl.upper]

\* C16: apart from the intercept (one per county instead of a single one),
\* the parameters of the model handed to the engine are declared alike in
\* both notebooks: the floor-effect coefficient has the same scalar type and
\* constraints in the pooled and in the unpooled parameters, and so has
\* sigma, so that both describe y ~ normal(intercept + slope * x, sigma)
\* over the same parameter domain.
C16_SameModelApartFromIntercept ==
    \A k \in 1..Len(calls) :
        /\ ScalarDomain(ParamDecl(calls[k].args.model_code, "beta")) =
              ScalarDomain(ParamDecl(pooled_parameters, "beta"))
        /\ ScalarDomain(ParamDecl(calls[k].args.model_code, "beta")) =
              ScalarDomain(ParamDecl(unpooled_parameters, "beta"))
        /\ ScalarDomain(ParamDecl(calls[k].args.model_code, "sigma")) =
              ScalarDomain(ParamDecl(pooled_parameters, "sigma"))
        /\ ScalarDomain(ParamDecl(calls[k].args.model_code, "sigma")) =
              ScalarDomain(ParamDecl(unpooled_parameters, "sigma"))
\* The draws of a[j] in the engine's 1-based indexing, one per kept draw.
DrawsOfIntercept(j) == [d \in 1..Len(fit["a"]) |-> fit["a"][d][j]]

\* C17: unpooled_estimates and unpooled_se hold one value per county,
\* indexed by clean_data.mn_counties in its order; the entry of the county
\* with 0-based code j is the mean, respectively the standard deviation,
\* over all draws of a[j+1], and a[j+1] is the intercept of every row whose
\* bound county value is j+1, i.e. whose host code is j.
C17_EstimatesIndexedByCounty ==
    "unpooled_estimates" \in defined =>
        /\ unpooled_estimates.index = clean_data.mn_counties
        /\ unpooled_se.index = clean_data.mn_counties
        /\ Len(unpooled_estimates.values) = NumCounties
        /\ Len(unpooled_se.values) = NumCounties
        /\ \A j \in 0..(NumCounties - 1) :
              /\ unpooled_estimates.values[j + 1] =
                    Rat(SumSeq(DrawsOfIntercept(j + 1)), Len(fit["a"]))
              /\ unpooled_se.values[j + 1] = [sqrt |-> Variance(DrawsOfIntercept(j + 1))]
        /\ \A i \in 1..Len(clean_data.county) :
              /\ data_dict.county[i] = clean_data.county[i] + 1
              /\ \A d \in 1..Len(fit["a"]) :
                    fit["y_hat"][d][i] =
                        fit["beta"][d] * data_dict.x[i]
                        + DrawsOfIntercept(clean_data.county[i] + 1)[d]

\* The summaries exist for a table with a row of the first county and a row
\* of the last, and the estimates of the two differ.
C17_Witness ==
    /\ "unpooled_estimates" \in defined
    /\ Len(clean_data.county) = 2
    /\ clean_data.county[1] = 0
    /\ clean_data.county[2] = NumCounties - 1
    /\ unpooled_estimates.index[NumCounties] = mn_counties[NumCounties]
    /\ unpooled_estimates.values[1] # unpooled_estimates.values[NumCounties]
\* The position of a county name in the index of the estimates.
PositionOf(label) ==
    CHOOSE i \in 1..Len(unpooled_estimates.index) : unpooled_estimates.index[i] = label

\* C18: once the unpooled plot is drawn, order is a permutation of the
\* county names, the estimates taken in that order never decrease, and the
\* scatter and the bars put each county at exactly one x position of
\* 0..len(unpooled_estimates)-1, the k-th of order at x = k-1.
C18_PlottedLowToHigh ==
    (nb = "unpooled" /\ figure # <<>> /\ raised = NoError) =>
        /\ Len(order) = Len(unpooled_estimates.values)
        /\ {order[k] : k \in 1..Len(order)} =
              {clean_data.mn_counties[j] : j \in 1..Len(clean_data.mn_counties)}
        /\ \A k, l \in 1..Len(order) : k # l => order[k] # order[l]
        /\ figure[1].kind = "scatter"
        /\ figure[1].xs = [k \in 1..Len(order) |-> k - 1]
        /\ \A k \in 1..Len(order) :
              /\ figure[1].ys[k] = unpooled_estimates.values[PositionOf(order[k])]
              /\ figure[1 + k].xs = <<k - 1, k - 1>>
              /\ figure[1 + k].ys[1].minus =
                    <<unpooled_estimates.values[PositionOf(order[k])],
                      unpooled_se.values[PositionOf(order[k])]>>
        /\ \A k \in 1..(Len(order) - 1) :
              RatLeq(figure[1].ys[k], figure[1].ys[k + 1])

\* The unpooled plot is drawn and the estimates rise from its first to its
\* last position.
C18_Witness ==
    /\ nb = "unpooled"
    /\ figure # <<>>
    /\ Len(order) = NumCounties
    /\ RatLt(figure[1].ys[1], figure[1].ys[NumCounties])
    /\ order # clean_data.mn_counties
\* The extracted draws of beta[k], one per draw.
DrawsOfBeta(k) == [d \in 1..Len(pooled_sample["beta"]) |-> pooled_sample["beta"][d][k]]

\* C19: in the pooled notebook b0 is the mean over all extracted draws of
\* beta[1], the intercept of the model statement, and m0 the mean of
\* beta[2], the coefficient of x; the pair is the column-wise mean of the
\* draws-by-2 array; and the line plotted is y = m0 * x + b0 over xvals.
C19_PooledSummariesAndLine ==
    "b0" \in defined =>
        /\ text["pooled_model"][1].body[1] =
              Stmt("y ~ normal(beta[1] + beta[2] * x, sigma);")
        /\ \A d \in 1..Len(pooled_sample["beta"]) : Len(pooled_sample["beta"][d]) = 2
        /\ b0 = Rat(SumSeq(DrawsOfBeta(1)), Len(pooled_sample["beta"]))
        /\ m0 = Rat(SumSeq(DrawsOfBeta(2)), Len(pooled_sample["beta"]))
        /\ <<b0, m0>> = mean_axis0(pooled_sample["beta"])
        /\ figure # <<>> =>
              /\ figure[2].kind = "plot"
              /\ figure[2].xs = xvals
              /\ Len(figure[2].ys) = Len(xvals)
              /\ \A k \in 1..Len(xvals) :
                    figure[2].ys[k] = RatAdd(RatMul(m0, xvals[k]), b0)

\* The pooled line is drawn with an intercept and a slope that differ, so
\* that their order shows.
C19_Witness ==
    /\ nb = "pooled"
    /\ "b0" \in defined
    /\ figure # <<>>
    /\ ~RatEq(b0, m0)
    /\ RatEq(figure[2].ys[1], RatAdd(RatMul(m0, Rat(-1, 10)), b0))
\* The declared length of the vector a of the unpooled parameters.
DeclaredLengthOfA ==
    DimsOf(ParamDecl(unpooled_parameters, "a"), <<>>)[1]

\* C20: for every mapping the unpooled notebook binds, every county[i] the
\* call carries is an index into the 85 elements declared for a; and in the
\* fit, y_hat has one entry per row i in 1..N for every draw, which is
\* beta * x[i] + a[county[i]] with county[i] inside the draws of a.
C20_PredictionIndexInBounds ==
    nb = "unpooled" =>
        /\ \A k \in 1..Len(calls) :
              /\ Len(calls[k].args.data.county) = calls[k].args.data.N
              /\ \A i \in 1..calls[k].args.data.N :
                    calls[k].args.data.county[i] \in 1..DeclaredLengthOfA
        /\ "unpooled_fit" \in defined =>
              \A d \in 1..Len(fit["a"]) :
                 /\ Len(fit["a"][d]) = DeclaredLengthOfA
                 /\ DOMAIN fit["y_hat"][d] = 1..data_dict.N
                 /\ \A i \in 1..data_dict.N :
                       /\ data_dict.county[i] \in DOMAIN fit["a"][d]
                       /\ fit["y_hat"][d][i] =
                             fit["beta"][d] * data_dict.x[i]
                             + fit["a"][d][data_dict.county[i]]

\* The unpooled fit holds predictions for a row of the first county and a
\* row of the last, read from a[1] and a[85].
C20_Witness ==
    /\ nb = "unpooled"
    /\ "unpooled_fit" \in defined
    /\ data_dict.N = 2
    /\ data_dict.county = <<1, 85>>
    /\ Len(fit["y_hat"][1]) = 2
    /\ fit["a"][1][1] # fit["a"][1][85]
\* The labels of an index are pairwise distinct.
IndexDistinct(index) ==
    \A i, j \in 1..Len(index) : i # j => index[i] # index[j]

\* The lines of a figure, in the order they were drawn.
BarsOf(fig) == SelectSeq(fig, LAMBDA artist : artist.kind = "plot")

\* The position of a county name in the index of the standard errors.
SePositionOf(label) ==
    CHOOSE i \in 1..Len(unpooled_se.index) : unpooled_se.index[i] = label

\* C21: with pairwise distinct county names as index, the unpooled plot
\* draws exactly one bar per county, and the bar at x = i is that of the
\* county of the point at x = i: it runs vertically at x = i from m - se to
\* m + se, m and se being the estimate and the standard error of the i-th
\* county of order.
C21_BarBelongsToCountyOfPoint ==
    (nb = "unpooled" /\ figure # <<>> /\ raised = NoError
        /\ IndexDistinct(unpooled_estimates.index)) =>
        /\ Len(BarsOf(figure)) = Len(clean_data.mn_counties)
        /\ Len(order) = Len(clean_data.mn_counties)
        /\ \A i \in 0..(Len(order) - 1) :
              /\ figure[1].xs[i + 1] = i
              /\ figure[1].ys[i + 1] = unpooled_estimates.values[PositionOf(order[i + 1])]
              /\ BarsOf(figure)[i + 1].xs = <<i, i>>
              /\ BarsOf(figure)[i + 1].ys =
                    << [minus |-> <<unpooled_estimates.values[PositionOf(order[i + 1])],
                                    unpooled_se.values[SePositionOf(order[i + 1])]>>],
                       [plus  |-> <<unpooled_estimates.values[PositionOf(order[i + 1])],
                                    unpooled_se.values[SePositionOf(order[i + 1])]>>] >>

\* The unpooled plot is drawn, and some x position holds a county that is
\* elsewhere in the index, with another standard error than the county at
\* that place of the index.
C21_Witness ==
    /\ nb = "unpooled"
    /\ figure # <<>>
    /\ raised = NoError
    /\ Len(BarsOf(figure)) = NumCounties
    /\ \E k \in 1..NumCounties :
          /\ PositionOf(order[k]) # k
          /\ unpooled_se.values[PositionOf(order[k])] # unpooled_se.values[k]
\* C22: the number of groups is the same wherever the unpooled notebook
\* has it: the upper bound of county in the data block, the declared length
\* of a, the number of columns of the draws of a and, once the estimates
\* exist, the length of clean_data.mn_counties that indexes them.  With a
\* data module of another number of counties the run never gets past the
\* summarise cell: it ends in a raise of the engine or of the construction
\* of the series, and no estimates are bound and nothing is plotted.
C22_NumberOfGroupsConsistent ==
    /\ DataDecl("county").upper = <<DeclaredLengthOfA>>
    /\ DeclaredLengthOfA = NumCounties
    /\ "unpooled_fit" \in defined =>
          \A d \in 1..Len(fit["a"]) : Len(fit["a"][d]) = DeclaredLengthOfA
    /\ "unpooled_estimates" \in defined =>
          /\ Len(clean_data.mn_counties) = DeclaredLengthOfA
          /\ unpooled_estimates.index = clean_data.mn_counties
          /\ unpooled_se.index = clean_data.mn_counties
          /\ Len(unpooled_estimates.values) = Len(clean_data.mn_counties)
          /\ Len(unpooled_se.values) = Len(clean_data.mn_counties)
    /\ Len(clean_data.mn_counties) # DeclaredLengthOfA =>
          /\ "unpooled_estimates" \notin defined
          /\ unpooled_estimates = Series(Unbound, Unbound)
          /\ unpooled_se = Series(Unbound, Unbound)
          /\ figure = <<>>
          /\ pc.cell <= CellIndex(nb, "summarise")
          /\ pc.at \in {"start", "engine", "raised"}
          /\ pc.at = "raised" =>
                \/ raised \in EngineErrors
                \/ raised = [type |-> "ValueError", origin |-> "pd.Series"]

\* A data module with one county fewer than declared is accepted by the
\* engine, the fit has 85 columns of a, and the construction of the series
\* has raised.
C22_Witness ==
    /\ Len(clean_data.mn_counties) = NumCounties - 1
    /\ Len(clean_data.county) = 1
    /\ "unpooled_fit" \in defined
    /\ Len(fit["a"][1]) = NumCounties
    /\ pc.at = "raised"
    /\ raised = [type |-> "ValueError", origin |-> "pd.Series"]
\* C23: however often the binding is executed, and whatever cells are run
\* in between, the mapping is the one a single execution gives: the county
\* value bound for row i is the host code of row i plus 1, the host codes
\* being the 0-based codes of the data module still, and every call of the
\* engine has carried that mapping.
C23_RebindingIdempotent ==
    "unpooled_data_dict" \in defined =>
        /\ data_dict = unpooled_data_dict_value(clean_data)
        /\ HostCodesInRange
        /\ Len(data_dict.county) = Len(clean_data.county)
        /\ \A i \in 1..Len(clean_data.county) :
              /\ data_dict.county[i] = clean_data.county[i] + 1
              /\ \A k \in 2..NumCounties : data_dict.county[i] # clean_data.county[i] + k
        /\ \A k \in 1..Len(calls) : calls[k].args.data = data_dict

\* The binding has been executed twice, the summarise cell in between, for
\* a row of the last county.
C23_Witness ==
    /\ Len(calls) = 2
    /\ Selections = 1
    /\ clean_data.county = <<NumCounties - 1>>
    /\ data_dict.county = <<NumCounties>>
    /\ \E i, j, k \in 1..Len(history) :
          /\ i < j
          /\ j < k
          /\ history[i] = "bind"
          /\ history[j] = "summarise"
          /\ history[k] = "bind"
\* The fit objects the engine can have returned to the calls that returned.
ReturnedFits ==
    {StanFit(seed, calls[k].args) :
        seed \in 0..MaxSeed,
        k \in {c \in 1..Len(calls) : calls[c].outcome = "returned"}}

\* The artists of the plot rendered last.
LastPlot == SubSeq(figure, Len(figure) - NumCounties - 5, Len(figure))

\* C24: whatever cells are executed and in whatever order, the fit cell run
\* again included, unpooled_estimates and unpooled_se are bound together,
\* and they are the column means and the column standard deviations of the
\* draws of a of one and the same fit object; every point and bar of the
\* plot rendered last shows an estimate and a standard error of one fit.
C24_EstimatesAndErrorsOfOneFit ==
    /\ "unpooled_estimates" \in defined <=> "unpooled_se" \in defined
    /\ "unpooled_estimates" \in defined =>
          \E f \in ReturnedFits :
             /\ unpooled_estimates = Series(mean_axis0(f["a"]), clean_data.mn_counties)
             /\ unpooled_se = Series(std_axis0(f["a"]), clean_data.mn_counties)
    /\ figure # <<>> =>
          \E f \in ReturnedFits :
             \A k \in 1..NumCounties :
                /\ LastPlot[1].ys[k] = Mean(Column(f["a"], PositionOf(order[k])))
                /\ LastPlot[1 + k].ys[1].minus =
                      <<Mean(Column(f["a"], PositionOf(order[k]))),
                        Std(Column(f["a"], PositionOf(order[k])))>>

\* The plot has been rendered twice, the fit cell run again in between, and
\* the two plots show the estimates of two fits that differ.
C24_Witness ==
    /\ Len(calls) = 2
    /\ calls[1].outcome = "returned"
    /\ calls[2].outcome = "returned"
    /\ Len(figure) = 2 * (NumCounties + 6)
    /\ figure[1].ys # LastPlot[1].ys
    /\ LastPlot[1].ys = Reindex(unpooled_estimates, order).values
\* The call of the engine has returned.
CallReturned == calls # <<>> /\ calls[Len(calls)].outcome = "returned"

\* The steps of the cells below the fit cell, in the order of the cells.
LaterSteps(n) ==
    SelectSeq(SubSeq(Cells(n), CellIndex(n, "fit") + 1, Len(Cells(n))),
              LAMBDA name : name # "empty")

\* What the run has done since the engine returned.
SinceReturn ==
    SubSeq(history, (CHOOSE k \in 1..Len(history) : history[k] = "return") + 1,
           Len(history))

\* C26: once the call of the engine has returned, the run of either
\* notebook comes to its end; by then every step below the fit cell has been
\* executed once, in the order of the cells, and in the unpooled notebook
\* the loop has drawn len(unpooled_estimates) bars, one per county, before
\* the limits and the labels that complete the plot.
C26_RunTerminates ==
    /\ CallReturned ~> (pc.at = "done")
    /\ [](pc.at = "done" =>
            /\ SinceReturn = LaterSteps(nb)
            /\ raised = NoError
            /\ nb = "unpooled" =>
                  /\ Len(BarsOf(figure)) = len(unpooled_estimates.values)
                  /\ Len(BarsOf(figure)) = Len(clean_data.mn_counties)
                  /\ Len(figure) = 1 + len(unpooled_estimates.values) + 5
                  /\ \A k \in 1..len(unpooled_estimates.values) :
                        figure[1 + k].kind = "plot"
                  /\ figure[2 + len(unpooled_estimates.values)].kind = "xlim")

\* The unpooled run is at its end after the engine returned, the bars of
\* all counties drawn.
C26_Witness ==
    /\ nb = "unpooled"
    /\ CallReturned
    /\ pc.at = "done"
    /\ SinceReturn = <<"summarise", "plot">>
    /\ Len(BarsOf(figure)) = NumCounties
====
